---- MODULE Spec2Model ----
(***************************************************************************)
(* One invocation of scripts/gmaps.py, the Google Maps Platform command    *)
(* line client: argument parsing, the per-command request builders, the    *)
(* credential resolver, the HTTP dispatcher and the output formatter.      *)
(*                                                                         *)
(* Python values are tagged records (None, Str, IntV, FloatV, BoolV, List,  *)
(* Dict) so that Python's truthiness ("x or default", "if x:") is computed *)
(* as Python computes it.  A Python string is a sequence of tokens: a      *)
(* token is one character, or an uninterpreted word where no code looks    *)
(* inside it.                                                              *)
(***************************************************************************)
EXTENDS Integers, Sequences, FiniteSets, TLC

VARIABLES
    environ,    \* os.environ.get("GOOGLE_MAPS_API_KEY"): None or a Str
    files,      \* the four candidate .env files, by search position
    pc,         \* "start", "parsed", "urlopen", "done" ("dispatch": see SpecRequest)
    args,       \* the argparse namespace (None before parsing)
    keyState,   \* "unresolved", "ok", "missing": what load_api_key did
    key,        \* the string load_api_key returned
    request,    \* the request handed to urlopen (None while none was made)
    netCalls,   \* number of urlopen calls made
    response,   \* what urlopen returned or raised (None before it did)
    stdout,     \* what was printed to standard output, in order
    stderr,     \* what was printed to the diagnostic stream, in order
    written,    \* output files written: path -> bytes
    exitCode    \* the process exit status (None while running)

vars == <<environ, files, pc, args, keyState, key, request,
          netCalls, response, stdout, stderr, written, exitCode>>

-----------------------------------------------------------------------------
(* Python values *)

None == [t |-> "none"]
Str(s) == [t |-> "str", v |-> s]
IntV(n) == [t |-> "int", v |-> n]
FloatV(n) == [t |-> "float", v |-> n]
BoolV(b) == [t |-> "bool", v |-> b]
List(l) == [t |-> "list", v |-> l]
Dict(d) == [t |-> "dict", v |-> d]

\* bool(x) for the value kinds the program handles
Truthy(x) ==
    CASE x.t = "none" -> FALSE
      [] x.t \in {"str", "list"} -> x.v # <<>>
      [] x.t = "dict" -> DOMAIN x.v # {}
      [] x.t = "bool" -> x.v
      [] x.t = "int" -> x.v # 0
      [] x.t = "float" -> x.v # 0

\* Python's "a or b"
Or(a, b) == IF Truthy(a) THEN a ELSE b

-----------------------------------------------------------------------------
(* str methods, on token sequences *)

Whitespace == {" ", "\t"}

RECURSIVE lstrip(_, _)
lstrip(s, chars) ==
    IF s # <<>> /\ Head(s) \in chars THEN lstrip(Tail(s), chars) ELSE s

RECURSIVE rstrip(_, _)
rstrip(s, chars) ==
    IF s # <<>> /\ s[Len(s)] \in chars
    THEN rstrip(SubSeq(s, 1, Len(s) - 1), chars)
    ELSE s

\* s.strip() and s.strip(chars)
strip(s, chars) == rstrip(lstrip(s, chars), chars)

\* s.find(c) + 1: the first position of c in s, 0 when c is not in s
RECURSIVE find(_, _)
find(s, c) ==
    IF s = <<>> THEN 0
    ELSE IF Head(s) = c THEN 1
    ELSE LET r == find(Tail(s), c) IN IF r = 0 THEN 0 ELSE r + 1

startswith(s, c) == s # <<>> /\ Head(s) = c

\* s.split(c, 1) for an s that contains c
split1(s, c) ==
    LET i == find(s, c) IN <<SubSeq(s, 1, i - 1), SubSeq(s, i + 1, Len(s))>>

-----------------------------------------------------------------------------
(* Credential resolver *)

\* the token that stands for the name GOOGLE_MAPS_API_KEY
KEYNAME == "GOOGLE_MAPS_API_KEY"

\* search_paths, in order: ./.env, ~/.env, <script dir>/../.env, <script dir>/.env
search_paths == <<"cwd", "home", "script_parent", "script_dir">>

NoFile == [exists |-> FALSE]
File(lines) == [exists |-> TRUE, lines |-> lines]

\* the body of the loop over one line: <<TRUE, value>> when the line returns
scan_line(raw) ==
    LET line == strip(raw, Whitespace) IN
    IF startswith(line, "#") \/ find(line, "=") = 0
    THEN <<FALSE, <<>>>>
    ELSE LET kv == split1(line, "=") IN
         IF strip(kv[1], Whitespace) = <<KEYNAME>>
         THEN <<TRUE, strip(strip(kv[2], Whitespace), {"\"", "'"})>>
         ELSE <<FALSE, <<>>>>

\* the loop over the lines of one file, from line i on
RECURSIVE scan_lines(_, _)
scan_lines(lines, i) ==
    IF i > Len(lines) THEN <<FALSE, <<>>>>
    ELSE LET r == scan_line(lines[i]) IN
         IF r[1] THEN r ELSE scan_lines(lines, i + 1)

\* mutant: the search goes on after a match, so the last file wins
RECURSIVE scan_paths_last_wins(_, _)
scan_paths_last_wins(fs, p) ==
    IF p > Len(search_paths) THEN <<FALSE, <<>>>>
    ELSE LET rest == scan_paths_last_wins(fs, p + 1) IN
         IF rest[1] THEN rest
         ELSE IF fs[p].exists THEN scan_lines(fs[p].lines, 1)
         ELSE <<FALSE, <<>>>>

\* the loop over search_paths, from position p on
RECURSIVE scan_paths(_, _)
scan_paths(fs, p) ==
    IF p > Len(search_paths) THEN <<FALSE, <<>>>>
    ELSE IF fs[p].exists
         THEN LET r == scan_lines(fs[p].lines, 1) IN
              IF r[1] THEN r ELSE scan_paths(fs, p + 1)
         ELSE scan_paths(fs, p + 1)

\* mutant: returns the empty string where load_api_key exits
load_api_key_returns_empty(env, fs) ==
    IF Truthy(env) THEN <<TRUE, env.v>> ELSE <<TRUE, scan_paths(fs, 1)[2]>>

\* load_api_key(): <<TRUE, key>> when it returns, <<FALSE, _>> when it exits
load_api_key(env, fs) ==
    IF Truthy(env) THEN <<TRUE, env.v>> ELSE scan_paths(fs, 1)

MissingKeyMessage ==
    <<"Error: GOOGLE_MAPS_API_KEY not found.",
      "Set it in a .env file or as an environment variable.">>

-----------------------------------------------------------------------------
(* dict operations *)

EmptyDict == [k \in {} |-> None]

\* d[k] = v
Put(d, k, v) == [x \in DOMAIN d \cup {k} |-> IF x = k THEN v ELSE d[x]]

\* if c: d[k] = v
PutIf(c, d, k, v) == IF c THEN Put(d, k, v) ELSE d

\* del d[k]
Del(d, k) == [x \in DOMAIN d \ {k} |-> d[x]]

\* d.update(e)
Update(d, e) ==
    [x \in DOMAIN d \cup DOMAIN e |-> IF x \in DOMAIN e THEN e[x] ELSE d[x]]

\* d.setdefault(k, v)
SetDefault(d, k, v) == IF k \in DOMAIN d THEN d ELSE Put(d, k, v)

-----------------------------------------------------------------------------
(* Conversions: str(), int(), float(), str.upper(), str.split(",") *)

Digits == {"0", "1", "2", "3", "4", "5", "6", "7", "8", "9"}

DigitValue(c) ==
    CASE c = "0" -> 0 [] c = "1" -> 1 [] c = "2" -> 2 [] c = "3" -> 3
      [] c = "4" -> 4 [] c = "5" -> 5 [] c = "6" -> 6 [] c = "7" -> 7
      [] c = "8" -> 8 [] c = "9" -> 9

\* whether int(s) / float(s) accepts the string s: an optional sign, then
\* digits (the argument strings of the model hold digits, "-", "," and
\* letters only)
IsNumeral(s) ==
    LET d == IF startswith(s, "-") THEN Tail(s) ELSE s IN
    d # <<>> /\ \A i \in 1..Len(d) : d[i] \in Digits

RECURSIVE Magnitude(_)
Magnitude(d) ==
    IF d = <<>> THEN 0
    ELSE 10 * Magnitude(SubSeq(d, 1, Len(d) - 1)) + DigitValue(d[Len(d)])

NumeralValue(s) ==
    IF startswith(s, "-") THEN 0 - Magnitude(Tail(s)) ELSE Magnitude(s)

\* whether int(x) / float(x) returns instead of raising ValueError
Converts(x) == x.t \in {"int", "float"} \/ (x.t = "str" /\ IsNumeral(x.v))

int(x) == IF x.t = "str" THEN IntV(NumeralValue(x.v)) ELSE IntV(x.v)
float(x) == IF x.t = "str" THEN FloatV(NumeralValue(x.v)) ELSE FloatV(x.v)

\* str(x), as an f-string or urlencode renders x
str(x) ==
    CASE x.t = "none" -> <<"None">>
      [] x.t = "str" -> x.v
      [] x.t = "int" -> <<ToString(x.v)>>
      [] x.t = "float" -> <<ToString(x.v), ".", "0">>

UpperChar(c) ==
    CASE c = "a" -> "A" [] c = "b" -> "B" [] c = "c" -> "C" [] c = "d" -> "D"
      [] c = "e" -> "E" [] c = "f" -> "F" [] c = "g" -> "G" [] c = "h" -> "H"
      [] c = "i" -> "I" [] c = "j" -> "J" [] c = "k" -> "K" [] c = "l" -> "L"
      [] c = "m" -> "M" [] c = "n" -> "N" [] c = "o" -> "O" [] c = "p" -> "P"
      [] c = "q" -> "Q" [] c = "r" -> "R" [] c = "s" -> "S" [] c = "t" -> "T"
      [] c = "u" -> "U" [] c = "v" -> "V" [] c = "w" -> "W" [] c = "x" -> "X"
      [] c = "y" -> "Y" [] c = "z" -> "Z"
      [] OTHER -> c

\* s.upper()
upper(s) == [i \in 1..Len(s) |-> UpperChar(s[i])]

\* s.split(",")
RECURSIVE split(_, _)
split(s, c) ==
    LET i == find(s, c) IN
    IF i = 0 THEN <<s>>
    ELSE <<SubSeq(s, 1, i - 1)>> \o split(SubSeq(s, i + 1, Len(s)), c)

\* "lat, lng = [float(x) for x in location.split(",")]" returns
LatLngParses(loc) ==
    LET parts == split(loc.v, ",") IN
    Len(parts) = 2 /\ IsNumeral(parts[1]) /\ IsNumeral(parts[2])

-----------------------------------------------------------------------------
(* What a command function does before the dispatcher sends anything: it    *)
(* raises on a local input error, or calls one of the api helpers.          *)

Raise(exc) == [kind |-> "raise", exc |-> exc]

\* api_get(url, params)
CallGet(url, params) ==
    [kind |-> "call", helper |-> "api_get", url |-> url, params |-> params]

\* api_post(url, data)
CallPost(url, data) ==
    [kind |-> "call", helper |-> "api_post", url |-> url, data |-> data]

\* api_get_fieldmask(url, params, fields=fields)
CallGetFieldmask(url, params, fields) ==
    [kind |-> "call", helper |-> "api_get_fieldmask", url |-> url,
     params |-> params, fields |-> fields]

\* api_post_fieldmask(url, data, fields=fields)
CallPostFieldmask(url, data, fields) ==
    [kind |-> "call", helper |-> "api_post_fieldmask", url |-> url,
     data |-> data, fields |-> fields]

\* download_file(url, params, output)
CallDownload(url, params, output) ==
    [kind |-> "call", helper |-> "download_file", url |-> url,
     params |-> params, output |-> output]

-----------------------------------------------------------------------------
(* 1. Geocoding *)

cmd_geocode(a) ==
    LET p0 == [address |-> a.address]
        p1 == PutIf(Truthy(a.bounds), p0, "bounds", a.bounds)
        p2 == PutIf(Truthy(a.region), p1, "region", a.region)
        p3 == PutIf(Truthy(a.components), p2, "components", a.components)
        p4 == PutIf(Truthy(a.language), p3, "language", a.language)
    IN CallGet(<<"https://maps.googleapis.com/maps/api/geocode/json">>, p4)

cmd_reverse_geocode(a) ==
    LET p0 == [latlng |-> Str(str(a.lat) \o <<",">> \o str(a.lng))]
        p1 == PutIf(Truthy(a.result_type), p0, "result_type", a.result_type)
        p2 == PutIf(Truthy(a.location_type), p1, "location_type", a.location_type)
        p3 == PutIf(Truthy(a.language), p2, "language", a.language)
    IN CallGet(<<"https://maps.googleapis.com/maps/api/geocode/json">>, p3)

-----------------------------------------------------------------------------
(* 2. Routes *)

driving == <<"d", "r", "i", "v", "i", "n", "g">>
walking == <<"w", "a", "l", "k", "i", "n", "g">>
bicycling == <<"b", "i", "c", "y", "c", "l", "i", "n", "g">>
transit == <<"t", "r", "a", "n", "s", "i", "t">>
two_wheeler == <<"t", "w", "o", "_", "w", "h", "e", "e", "l", "e", "r">>

DRIVE == <<"D", "R", "I", "V", "E">>
WALK == <<"W", "A", "L", "K">>
BICYCLE == <<"B", "I", "C", "Y", "C", "L", "E">>
TRANSIT == <<"T", "R", "A", "N", "S", "I", "T">>
TWO_WHEELER == <<"T", "W", "O", "_", "W", "H", "E", "E", "L", "E", "R">>

\* the dict "modes" of cmd_directions, and modes.get(m, default)
modes ==
    [m \in {driving, walking, bicycling, transit, two_wheeler} |->
        CASE m = driving -> DRIVE
          [] m = walking -> WALK
          [] m = bicycling -> BICYCLE
          [] m = transit -> TRANSIT
          [] m = two_wheeler -> TWO_WHEELER]

\* mutant: recognized modes are upper-cased instead of looked up
modes_get_upper(m, default) == IF m \in DOMAIN modes THEN upper(m) ELSE default

modes_get(m, default) == IF m \in DOMAIN modes THEN modes[m] ELSE default

DirectionsFields ==
    <<"routes.duration,routes.distanceMeters,routes.polyline.encodedPolyline,routes.legs,routes.description,routes.warnings,routes.travelAdvisory">>

\* mutant: each avoidance flag assigns routeModifiers afresh, so only the
\* last flag set survives
cmd_directions_overwrites(a) ==
    LET b0 == [origin |-> [address |-> a.origin],
               destination |-> [address |-> a.destination],
               travelMode |-> Str(modes_get(a.mode.v, DRIVE)),
               computeAlternativeRoutes |-> a.alternatives,
               languageCode |-> Or(a.language, Str(<<"en">>))]
        b1 == PutIf(a.avoid_tolls, b0, "routeModifiers", [avoidTolls |-> TRUE])
        b2 == PutIf(a.avoid_highways, b1, "routeModifiers", [avoidHighways |-> TRUE])
        b3 == PutIf(a.avoid_ferries, b2, "routeModifiers", [avoidFerries |-> TRUE])
    IN CallPostFieldmask(
           <<"https://routes.googleapis.com/directions/v2:computeRoutes">>,
           Dict(b3), Str(DirectionsFields))

cmd_directions(a) ==
    LET b0 == [origin |-> [address |-> a.origin],
               destination |-> [address |-> a.destination],
               travelMode |-> Str(modes_get(a.mode.v, DRIVE)),
               computeAlternativeRoutes |-> a.alternatives,
               languageCode |-> Or(a.language, Str(<<"en">>))]
        b1 == PutIf(Truthy(a.departure_time), b0, "departureTime", a.departure_time)
        b2 == IF a.avoid_tolls
              THEN Put(b1, "routeModifiers",
                       Put(SetDefault(b1, "routeModifiers", EmptyDict).routeModifiers,
                           "avoidTolls", TRUE))
              ELSE b1
        b3 == IF a.avoid_highways
              THEN Put(b2, "routeModifiers",
                       Put(SetDefault(b2, "routeModifiers", EmptyDict).routeModifiers,
                           "avoidHighways", TRUE))
              ELSE b2
        b4 == IF a.avoid_ferries
              THEN Put(b3, "routeModifiers",
                       Put(SetDefault(b3, "routeModifiers", EmptyDict).routeModifiers,
                           "avoidFerries", TRUE))
              ELSE b3
        b5 == PutIf(Truthy(a.waypoints), b4, "intermediates",
                    [i \in DOMAIN a.waypoints.v |-> [address |-> a.waypoints.v[i]]])
        b6 == PutIf(a.units = Str(<<"imperial">>), b5, "units", Str(<<"IMPERIAL">>))
    IN CallPostFieldmask(
           <<"https://routes.googleapis.com/directions/v2:computeRoutes">>,
           Dict(b6), Str(DirectionsFields))

cmd_distance_matrix(a) ==
    LET body == [origins |-> [i \in DOMAIN a.origins.v |->
                                 [waypoint |-> [address |-> a.origins.v[i]]]],
                 destinations |-> [i \in DOMAIN a.destinations.v |->
                                      [waypoint |-> [address |-> a.destinations.v[i]]]],
                 travelMode |-> IF Truthy(a.mode) THEN Str(upper(a.mode.v))
                                ELSE Str(DRIVE)]
    IN CallPostFieldmask(
           <<"https://routes.googleapis.com/distanceMatrix/v2:computeRouteMatrix">>,
           Dict(body),
           Str(<<"originIndex,destinationIndex,duration,distanceMeters,status,condition">>))

-----------------------------------------------------------------------------
(* 3. Places *)

PLACES_FIELDS ==
    <<"places.id,places.displayName,places.formattedAddress,places.rating,places.userRatingCount,places.types,places.nationalPhoneNumber,places.websiteUri,places.regularOpeningHours,places.priceLevel,places.editorialSummary,places.location">>

\* {"circle": {"center": {"latitude": lat, "longitude": lng}, "radius": r}}
\* from a "lat,lng" string, as places-search and autocomplete build it
LocationBias(location, radius) ==
    LET parts == split(location.v, ",") IN
    [circle |-> [center |-> [latitude |-> float(Str(parts[1])),
                             longitude |-> float(Str(parts[2]))],
                 radius |-> float(Or(radius, IntV(5000)))]]

cmd_places_search(a) ==
    IF \/ Truthy(a.location) /\ ~LatLngParses(a.location)
       \/ Truthy(a.location) /\ ~Converts(Or(a.radius, IntV(5000)))
       \/ Truthy(a.min_rating) /\ ~Converts(a.min_rating)
       \/ Truthy(a.max_results) /\ ~Converts(a.max_results)
    THEN Raise("ValueError")
    ELSE
    LET b0 == [textQuery |-> a.query]
        b1 == IF Truthy(a.location)
              THEN Put(b0, "locationBias", LocationBias(a.location, a.radius))
              ELSE b0
        b2 == PutIf(Truthy(a.type), b1, "includedType", a.type)
        b3 == IF Truthy(a.min_rating)
              THEN Put(b2, "minRating", float(a.min_rating)) ELSE b2
        b4 == PutIf(a.open_now, b3, "openNow", TRUE)
        b5 == PutIf(Truthy(a.language), b4, "languageCode", a.language)
        b6 == IF Truthy(a.max_results)
              THEN Put(b5, "maxResultCount", int(a.max_results)) ELSE b5
    IN CallPostFieldmask(<<"https://places.googleapis.com/v1/places:searchText">>,
                         Dict(b6), Or(a.fields, Str(PLACES_FIELDS)))

cmd_places_nearby(a) ==
    IF \/ ~Converts(Or(a.radius, IntV(500)))
       \/ ~Converts(Or(a.max_results, IntV(20)))
    THEN Raise("ValueError")
    ELSE
    LET b0 == [locationRestriction |->
                  [circle |-> [center |-> [latitude |-> float(a.lat),
                                           longitude |-> float(a.lng)],
                               radius |-> float(Or(a.radius, IntV(500)))]],
               maxResultCount |-> int(Or(a.max_results, IntV(20)))]
        b1 == PutIf(Truthy(a.type), b0, "includedTypes", <<a.type>>)
        b2 == PutIf(Truthy(a.language), b1, "languageCode", a.language)
    IN CallPostFieldmask(<<"https://places.googleapis.com/v1/places:searchNearby">>,
                         Dict(b2), Or(a.fields, Str(PLACES_FIELDS)))

PlaceDetailsFields ==
    <<"id,displayName,formattedAddress,rating,userRatingCount,types,nationalPhoneNumber,internationalPhoneNumber,websiteUri,regularOpeningHours,priceLevel,editorialSummary,reviews,photos,location,adrFormatAddress,businessStatus,googleMapsUri">>

cmd_place_details(a) ==
    CallGetFieldmask(<<"https://places.googleapis.com/v1/places/">> \o a.place_id.v,
                     EmptyDict, Or(a.fields, Str(PlaceDetailsFields)))

cmd_autocomplete(a) ==
    IF \/ Truthy(a.location) /\ ~LatLngParses(a.location)
       \/ Truthy(a.location) /\ ~Converts(Or(a.radius, IntV(5000)))
    THEN Raise("ValueError")
    ELSE
    LET b0 == [input |-> a.input]
        b1 == IF Truthy(a.location)
              THEN Put(b0, "locationBias", LocationBias(a.location, a.radius))
              ELSE b0
        b2 == PutIf(Truthy(a.language), b1, "languageCode", a.language)
        b3 == PutIf(Truthy(a.region), b2, "regionCode", a.region)
        b4 == PutIf(Truthy(a.types), b3, "includedPrimaryTypes", a.types)
    IN CallPost(<<"https://places.googleapis.com/v1/places:autocomplete">>, Dict(b4))

cmd_place_photo(a) ==
    CallGet(<<"https://places.googleapis.com/v1/">> \o a.photo_ref.v \o <<"/media">>,
            [maxHeightPx |-> Or(a.max_height, IntV(400)),
             maxWidthPx |-> Or(a.max_width, IntV(400)),
             skipHttpRedirect |-> Str(<<"true">>)])

-----------------------------------------------------------------------------
(* 4. Elevation, 5. Timezone *)

cmd_elevation(a) ==
    CallGet(<<"https://maps.googleapis.com/maps/api/elevation/json">>,
            IF Truthy(a.path)
            THEN [path |-> a.path, samples |-> Or(a.samples, IntV(10))]
            ELSE [locations |->
                     IF Truthy(a.locations) THEN a.locations
                     ELSE Str(str(a.lat) \o <<",">> \o str(a.lng))])

\* now is int(time.time())
cmd_timezone(a, now) ==
    LET p0 == [location |-> Str(str(a.lat) \o <<",">> \o str(a.lng)),
               timestamp |-> Or(a.timestamp, Str(str(IntV(now))))]
        p1 == PutIf(Truthy(a.language), p0, "language", a.language)
    IN CallGet(<<"https://maps.googleapis.com/maps/api/timezone/json">>, p1)

-----------------------------------------------------------------------------
(* 6. Air quality, 7. Pollen, 8. Solar, 9. Weather *)

cmd_air_quality(a) ==
    LET b0 == [location |-> [latitude |-> float(a.lat), longitude |-> float(a.lng)]]
        b1 == PutIf(Truthy(a.language), b0, "languageCode", a.language)
        e1 == IF a.health THEN <<"HEALTH_RECOMMENDATIONS">> ELSE <<>>
        extras == IF a.pollutants
                  THEN e1 \o <<"DOMINANT_POLLUTANT_CONCENTRATION",
                               "POLLUTANT_CONCENTRATION">>
                  ELSE e1
        b2 == PutIf(extras # <<>>, b1, "extraComputations", extras)
    IN CallPost(<<"https://airquality.googleapis.com/v1/currentConditions:lookup">>,
                Dict(b2))

cmd_air_quality_history(a) ==
    IF ~Converts(Or(a.hours, IntV(24))) THEN Raise("ValueError")
    ELSE
    LET b0 == [location |-> [latitude |-> float(a.lat), longitude |-> float(a.lng)],
               hours |-> int(Or(a.hours, IntV(24)))]
        b1 == PutIf(Truthy(a.language), b0, "languageCode", a.language)
    IN CallPost(<<"https://airquality.googleapis.com/v1/history:lookup">>, Dict(b1))

cmd_air_quality_forecast(a) ==
    LET b0 == [location |-> [latitude |-> float(a.lat), longitude |-> float(a.lng)]]
        b1 == PutIf(Truthy(a.language), b0, "languageCode", a.language)
    IN CallPost(<<"https://airquality.googleapis.com/v1/forecast:lookup">>, Dict(b1))

cmd_pollen(a) ==
    LET p0 == [x \in {"location.latitude", "location.longitude", "days"} |->
                  CASE x = "location.latitude" -> a.lat
                    [] x = "location.longitude" -> a.lng
                    [] x = "days" -> Or(a.days, IntV(3))]
        p1 == PutIf(Truthy(a.language), p0, "languageCode", a.language)
    IN CallGet(<<"https://pollen.googleapis.com/v1/forecast:lookup">>, p1)

\* {"location.latitude": lat, "location.longitude": lng}
LatLngParams(a) ==
    [x \in {"location.latitude", "location.longitude"} |->
        IF x = "location.latitude" THEN a.lat ELSE a.lng]

cmd_solar(a) ==
    CallGet(<<"https://solar.googleapis.com/v1/buildingInsights:findClosest">>,
            PutIf(Truthy(a.quality), LatLngParams(a), "requiredQuality", a.quality))

cmd_solar_layers(a) ==
    LET p0 == Put(LatLngParams(a), "radiusMeters", Or(a.radius, IntV(50)))
        p1 == PutIf(Truthy(a.quality), p0, "requiredQuality", a.quality)
        p2 == PutIf(Truthy(a.pixel_size), p1, "pixelSizeMeters", a.pixel_size)
    IN CallGet(<<"https://solar.googleapis.com/v1/dataLayers:get">>, p2)

cmd_weather(a) ==
    LET base == "https://weather.googleapis.com/v1"
        p0 == PutIf(Truthy(a.language), LatLngParams(a), "languageCode", a.language)
    IN CASE a.mode = Str(<<"current">>) ->
               CallGet(<<base, "/currentConditions:lookup">>, p0)
         [] a.mode = Str(<<"hourly">>) ->
               CallGet(<<base, "/forecast/hours">>,
                       PutIf(Truthy(a.hours), p0, "forecastHours", a.hours))
         [] a.mode = Str(<<"daily">>) ->
               CallGet(<<base, "/forecast/days">>,
                       PutIf(Truthy(a.days), p0, "forecastDays", a.days))
         [] a.mode = Str(<<"history">>) ->
               CallGet(<<base, "/history/hours">>,
                       PutIf(Truthy(a.hours), p0, "hours", a.hours))
         [] OTHER -> CallGet(<<base, "/currentConditions:lookup">>, p0)

-----------------------------------------------------------------------------
(* 10. Address validation, 11. Roads *)

cmd_validate_address(a) ==
    LET a0 == [addressLines |-> <<a.address>>]
        a1 == PutIf(Truthy(a.region), a0, "regionCode", a.region)
        a2 == PutIf(Truthy(a.locality), a1, "locality", a.locality)
        b0 == [address |-> a2]
        b1 == PutIf(a.enable_usps, b0, "enableUspsCass", TRUE)
    IN CallPost(<<"https://addressvalidation.googleapis.com/v1:validateAddress">>,
                Dict(b1))

cmd_snap_roads(a) ==
    CallGet(<<"https://roads.googleapis.com/v1/snapToRoads">>,
            PutIf(a.interpolate, [path |-> a.path], "interpolate", Str(<<"true">>)))

cmd_nearest_roads(a) ==
    CallGet(<<"https://roads.googleapis.com/v1/nearestRoads">>, [points |-> a.points])

-----------------------------------------------------------------------------
(* 12. Street View, 13. Static map *)

\* f"{args.lat},{args.lng}" if args.lat else <the string flag>
LatLngOr(a, flag) ==
    IF Truthy(a.lat) THEN Str(str(a.lat) \o <<",">> \o str(a.lng)) ELSE flag

\* mutant: pano is added and location is left in the parameter set
cmd_streetview_keeps_location(a) ==
    LET p0 == [size |-> Or(a.size, Str(<<"600x400">>)),
               location |-> LatLngOr(a, a.location)]
        p1 == PutIf(a.heading # None, p0, "heading", a.heading)
        p2 == PutIf(a.pitch # None, p1, "pitch", a.pitch)
        p3 == PutIf(a.fov # None, p2, "fov", a.fov)
        p4 == PutIf(Truthy(a.pano), p3, "pano", a.pano)
    IN CallDownload(<<"https://maps.googleapis.com/maps/api/streetview">>, p4,
                    Or(a.output, Str(<<"streetview.jpg">>)))

cmd_streetview(a) ==
    LET p0 == [size |-> Or(a.size, Str(<<"600x400">>)),
               location |-> LatLngOr(a, a.location)]
        p1 == PutIf(a.heading # None, p0, "heading", a.heading)
        p2 == PutIf(a.pitch # None, p1, "pitch", a.pitch)
        p3 == PutIf(a.fov # None, p2, "fov", a.fov)
        p4 == IF Truthy(a.pano) THEN Del(Put(p3, "pano", a.pano), "location") ELSE p3
    IN CallDownload(<<"https://maps.googleapis.com/maps/api/streetview">>, p4,
                    Or(a.output, Str(<<"streetview.jpg">>)))

cmd_static_map(a) ==
    LET p0 == [center |-> LatLngOr(a, a.center),
               zoom |-> Or(a.zoom, IntV(14)),
               size |-> Or(a.size, Str(<<"600x400">>)),
               maptype |-> Or(a.maptype, Str(<<"roadmap">>)),
               format |-> Or(a.format, Str(<<"png">>))]
        p1 == PutIf(Truthy(a.markers), p0, "markers", a.markers)
        p2 == PutIf(Truthy(a.path_line), p1, "path", a.path_line)
        p3 == PutIf(Truthy(a.style), p2, "style", a.style)
        p4 == PutIf(Truthy(a.scale), p3, "scale", a.scale)
    IN CallDownload(<<"https://maps.googleapis.com/maps/api/staticmap">>, p4,
                    Or(a.output, Str(<<"map.">> \o Or(a.format, Str(<<"png">>)).v)))

-----------------------------------------------------------------------------
(* 14. Geolocation *)

\* whether the loop over --wifi raises: int(parts[1]) of a "MAC,signal" entry
WifiRaises(wifi) ==
    \E i \in DOMAIN wifi.v :
        LET parts == split(wifi.v[i], ",") IN
        Len(parts) > 1 /\ ~IsNumeral(parts[2])

\* whether the loop over --cell raises: int() of the first four fields
CellRaises(cell) ==
    \E i \in DOMAIN cell.v :
        LET parts == split(cell.v[i], ",") IN
        \E j \in 1..Len(parts) : j <= 4 /\ ~IsNumeral(parts[j])

WifiAccessPoint(w) ==
    LET parts == split(w, ",") IN
    PutIf(Len(parts) > 1, [macAddress |-> Str(parts[1])],
          "signalStrength", IF Len(parts) > 1 THEN int(Str(parts[2])) ELSE None)

CellTower(c) ==
    LET parts == split(c, ",")
        field(j) == IF Len(parts) >= j THEN int(Str(parts[j])) ELSE IntV(0)
    IN [cellId |-> field(1), locationAreaCode |-> field(2),
        mobileCountryCode |-> field(3), mobileNetworkCode |-> field(4)]

cmd_geolocation(a) ==
    IF \/ Truthy(a.wifi) /\ WifiRaises(a.wifi)
       \/ Truthy(a.cell) /\ CellRaises(a.cell)
    THEN Raise("ValueError")
    ELSE
    LET b0 == PutIf(a.consider_ip # None, EmptyDict, "considerIp", a.consider_ip.v)
        b1 == PutIf(Truthy(a.wifi), b0, "wifiAccessPoints",
                    [i \in DOMAIN a.wifi.v |-> WifiAccessPoint(a.wifi.v[i])])
        b2 == PutIf(Truthy(a.cell), b1, "cellTowers",
                    [i \in DOMAIN a.cell.v |-> CellTower(a.cell.v[i])])
    IN CallPost(<<"https://www.googleapis.com/geolocation/v1/geolocate">>, Dict(b2))

-----------------------------------------------------------------------------
(* 15. Aerial view, 16. Route optimization, 17. Places aggregate *)

cmd_aerial_view(a) ==
    CASE a.action = Str(<<"check">>) ->
             CallGet(<<"https://aerialview.googleapis.com/v1/videos:lookupVideoMetadata">>,
                     [address |-> a.address])
      [] a.action = Str(<<"render">>) ->
             CallPost(<<"https://aerialview.googleapis.com/v1/videos:renderVideo">>,
                      Dict([address |-> a.address]))
      [] a.action = Str(<<"get">>) ->
             CallGet(<<"https://aerialview.googleapis.com/v1/videos:lookupVideo">>,
                     IF Truthy(a.video_id) THEN [videoId |-> a.video_id]
                     ELSE IF Truthy(a.address) THEN [address |-> a.address]
                     ELSE EmptyDict)
      [] OTHER -> [kind |-> "return"]

\* a text file: JSON that json.loads decodes to doc, or text it rejects
JsonText(doc) == [json |-> TRUE, doc |-> doc]
NotJson(raw) == [json |-> FALSE, raw |-> raw]

\* mutant: an unreadable or undecodable input file is sent as an empty body
cmd_route_optimize_lenient(a) ==
    CallPost(<<"https://routeoptimization.googleapis.com/v1/projects/">>
                 \o Or(a.project, Str(<<"default">>)).v
                 \o <<":optimizeTours">>,
             IF a.input_file.exists /\ a.input_file.text.json
             THEN a.input_file.text.doc ELSE None)

\* a.input_file is the file at the path args.input
cmd_route_optimize(a) ==
    IF ~a.input_file.exists THEN Raise("FileNotFoundError")
    ELSE IF ~a.input_file.text.json THEN Raise("JSONDecodeError")
    ELSE CallPost(<<"https://routeoptimization.googleapis.com/v1/projects/">>
                      \o Or(a.project, Str(<<"default">>)).v
                      \o <<":optimizeTours">>,
                  a.input_file.text.doc)

cmd_places_aggregate(a) ==
    IF \/ Truthy(a.location) /\ ~LatLngParses(a.location)
       \/ Truthy(a.location) /\ ~Converts(Or(a.radius, IntV(5000)))
       \/ Truthy(a.min_rating) /\ ~Converts(a.min_rating)
    THEN Raise("ValueError")
    ELSE
    LET parts == split(a.location.v, ",")
        f0 == EmptyDict
        f1 == IF Truthy(a.location)
              THEN Put(f0, "locationFilter",
                       [circle |-> [latLng |-> [latitude |-> float(Str(parts[1])),
                                                longitude |-> float(Str(parts[2]))],
                                    radius |-> float(Or(a.radius, IntV(5000)))]])
              ELSE f0
        f2 == PutIf(Truthy(a.type), f1, "typeFilter", [includedTypes |-> <<a.type>>])
        f3 == IF Truthy(a.min_rating)
              THEN Put(f2, "ratingFilter", [minRating |-> float(a.min_rating)])
              ELSE f2
        f4 == PutIf(Truthy(a.price_levels), f3, "priceLevelFilter",
                    [priceLevels |-> a.price_levels])
    IN CallPost(<<"https://areainsights.googleapis.com/v1:computeInsights">>,
                Dict([insights |-> <<Or(a.insight, Str(<<"INSIGHT_COUNT">>))>>,
                      filter |-> f4]))

-----------------------------------------------------------------------------
(* 18. Map embed URL: no API call *)

\* urllib.parse.urlencode(params): each value rendered with str()
urlencode(params) == [k \in DOMAIN params |-> str(params[k])]

\* what cmd_embed_url prints, given the key load_api_key returned
cmd_embed_url(a, k) ==
    LET mode == Or(a.mode, Str(<<"place">>))
        p0 == [key |-> Str(k)]
        p1 == CASE mode = Str(<<"place">>) -> Put(p0, "q", a.query)
                [] mode = Str(<<"directions">>) ->
                     PutIf(Truthy(a.waypoints_str),
                           Put(Put(p0, "origin", Or(a.origin, Str(<<>>))),
                               "destination", Or(a.destination, Str(<<>>))),
                           "waypoints", a.waypoints_str)
                [] mode = Str(<<"search">>) -> Put(p0, "q", a.query)
                [] mode = Str(<<"view">>) ->
                     Put(Put(p0, "center", LatLngOr(a, a.center)),
                         "zoom", Or(a.zoom, IntV(14)))
                [] mode = Str(<<"streetview">>) ->
                     PutIf(a.heading # None,
                           Put(p0, "location", LatLngOr(a, a.location)),
                           "heading", a.heading)
                [] OTHER -> p0
    IN [embed_url |-> [base |-> <<"https://www.google.com/maps/embed/v1/">> \o mode.v,
                       query |-> urlencode(p1)],
        mode |-> mode]

-----------------------------------------------------------------------------
(* HTTP helpers *)

\* bytes: json.dumps(doc).encode(), text.encode(), and a received payload
\* (its octets, and the text they spell)
JsonBytes(doc) == [t |-> "bytes", text |-> JsonText(doc)]
Utf8Bytes(text) == [t |-> "bytes", text |-> NotJson(text)]
Payload(octets, text) == [t |-> "bytes", octets |-> octets, text |-> text]

UserAgent == Str(<<"gmaps-cli/1.0">>)

\* mutant: caller headers replace the default headers instead of being merged
_request_replaces_headers(url, method, body, headers) ==
    LET h1 == IF Truthy(headers) THEN headers.v ELSE "User-Agent" :> UserAgent
        h2 == IF body # None /\ body.t = "dict"
              THEN SetDefault(h1, "Content-Type", Str(<<"application/", "json">>))
              ELSE h1
        data == IF body = None THEN None
                ELSE IF body.t = "dict" THEN [t |-> "bytes", text |-> JsonText(body.v)]
                ELSE IF body.t = "str" THEN [t |-> "bytes", text |-> NotJson(body.v)]
                ELSE body
    IN [url |-> url, data |-> data, headers |-> h2, method |-> method]

\* _request up to the urlopen call: the urllib Request it builds
\* (headers is None or a Dict)
_request(url, method, body, headers) ==
    LET h0 == "User-Agent" :> UserAgent
        h1 == IF Truthy(headers) THEN Update(h0, headers.v) ELSE h0
        h2 == IF body # None /\ body.t = "dict"
              THEN SetDefault(h1, "Content-Type", Str(<<"application/", "json">>))
              ELSE h1
        data == IF body = None THEN None
                ELSE IF body.t = "dict" THEN JsonBytes(body.v)
                ELSE IF body.t = "str" THEN Utf8Bytes(body.v)
                ELSE body
    IN [url |-> url, data |-> data, headers |-> h2, method |-> method]

\* f"{base_url}?{qs}"
Url(base_url, qs) == [base |-> base_url, query |-> qs]

\* api_get, with k the key load_api_key returned
api_get(base_url, params, k) ==
    LET p == Put(params, "key", Str(k)) IN
    _request(Url(base_url, urlencode(p)), "GET", None, None)

api_post(base_url, data, extra_headers, use_key_param, k) ==
    LET params == PutIf(use_key_param, EmptyDict, "key", Str(k))
        hdrs == IF Truthy(extra_headers) THEN Update(EmptyDict, extra_headers.v)
                ELSE EmptyDict
    IN _request(Url(base_url, urlencode(params)), "POST", data, Dict(hdrs))

api_get_fieldmask(base_url, params, fields, k) ==
    LET p == Put(params, "key", Str(k))
        hdrs == PutIf(Truthy(fields), EmptyDict, "X-Goog-FieldMask", fields)
    IN _request(Url(base_url, urlencode(p)), "GET", None, Dict(hdrs))

\* mutant: the key travels in a header and the URL has no query string
api_post_fieldmask_key_in_header(base_url, data, fields, k) ==
    LET hdrs == PutIf(Truthy(fields), "X-Goog-Api-Key" :> Str(k),
                      "X-Goog-FieldMask", fields)
    IN _request(Url(base_url, urlencode(EmptyDict)), "POST", data, Dict(hdrs))

api_post_fieldmask(base_url, data, fields, k) ==
    LET params == [key |-> Str(k)]
        hdrs == PutIf(Truthy(fields), EmptyDict, "X-Goog-FieldMask", fields)
    IN _request(Url(base_url, urlencode(params)), "POST", data, Dict(hdrs))

\* download_file up to the urlopen call
download_file(url, params, k) ==
    LET p == Put(params, "key", Str(k)) IN
    _request(Url(url, urlencode(p)), "GET", None, None)

\* the request a command's helper call hands to urlopen
HelperRequest(c, k) ==
    CASE c.helper = "api_get" -> api_get(c.url, c.params, k)
      [] c.helper = "api_post" -> api_post(c.url, c.data, None, TRUE, k)
      [] c.helper = "api_get_fieldmask" ->
             api_get_fieldmask(c.url, c.params, c.fields, k)
      [] c.helper = "api_post_fieldmask" ->
             api_post_fieldmask(c.url, c.data, c.fields, k)
      [] c.helper = "download_file" -> download_file(c.url, c.params, k)

\* whether http.client can transmit the request body: None or bytes
\* (anything else raises TypeError once the request line and headers went out)
Transmits(req) == req.data = None \/ req.data.t = "bytes"

\* "json" in ct
JsonContentType(ct) == \E i \in DOMAIN ct : ct[i] = "json"

\* what out(data) prints
out(data) ==
    IF data.t = "bytes"
    THEN [fmt |-> "binary data", bytes |-> Len(data.octets)]
    ELSE [fmt |-> "json", indent |-> 2, ensure_ascii |-> FALSE, doc |-> data]

-----------------------------------------------------------------------------
(* The command lines explored: for each subcommand, the namespaces argparse *)
(* can produce from them (build_parser's types and defaults applied).       *)

T(w) == Str(<<w>>)
Opt(w) == {None, T(w)}
Name(c) == {T(c)}

Lat == FloatV(48)
Lng == FloatV(2)
\* --lat/--lng given together or not at all; 0 is a latitude like any other
LatLngPairs == {<<None, None>>, <<FloatV(0), FloatV(0)>>, <<Lat, Lng>>}

flying == <<"f", "l", "y", "i", "n", "g">>

\* strings given where a number, or "lat,lng", is expected
Numerals == {Str(<<"5", "0">>), Str(<<"a", "b", "c">>)}
LatLngStrings == {Str(<<"1", ",", "2">>), Str(<<"a", ",", "b">>), Str(<<"1">>)}

\* the file named by route-optimize's input argument
InputFiles ==
    {NoFile,
     [exists |-> TRUE, text |-> NotJson(<<"{">>)],
     [exists |-> TRUE, text |-> JsonText(Dict([model |-> T("m")]))],
     [exists |-> TRUE, text |-> JsonText(List(<<IntV(1)>>))],
     [exists |-> TRUE, text |-> JsonText(T("s"))],
     [exists |-> TRUE, text |-> JsonText(IntV(7))],
     [exists |-> TRUE, text |-> JsonText(None)]}

Commands ==
    {"geocode", "reverse-geocode", "directions", "distance-matrix",
     "places-search", "places-nearby", "place-details", "autocomplete",
     "place-photo", "elevation", "timezone", "air-quality",
     "air-quality-history", "air-quality-forecast", "pollen", "solar",
     "solar-layers", "weather", "validate-address", "snap-roads",
     "nearest-roads", "streetview", "static-map", "geolocation",
     "aerial-view", "route-optimize", "places-aggregate", "embed-url"}

\* no subcommand on the command line
NoCommand == "<none>"

Argv(c) ==
    CASE c = NoCommand -> {[command |-> None]}
      [] c = "geocode" ->
           [command : Name(c), address : {T("Paris")}, bounds : {None},
            region : Opt("fr"), components : {None}, language : Opt("fr")]
      [] c = "reverse-geocode" ->
           [command : Name(c), lat : {Lat, FloatV(0)}, lng : {Lng},
            result_type : {None}, location_type : {None}, language : Opt("fr")]
      [] c = "directions" ->
           [command : Name(c), origin : {T("A")}, destination : {T("B")},
            mode : {Str(driving), Str(walking), Str(bicycling), Str(transit),
                    Str(two_wheeler), Str(flying)},
            alternatives : BOOLEAN, avoid_tolls : BOOLEAN,
            avoid_highways : BOOLEAN, avoid_ferries : BOOLEAN,
            waypoints : {None}, departure_time : {None},
            units : {T("metric")}, language : {None}]
      [] c = "distance-matrix" ->
           [command : Name(c), origins : {List(<<T("A")>>)},
            destinations : {List(<<T("B")>>)},
            mode : {Str(driving), Str(walking), Str(bicycling), Str(transit),
                    Str(two_wheeler), Str(flying), Str(<<>>)}]
      [] c = "places-search" ->
           [command : Name(c), query : {T("pizza")},
            location : {None} \cup LatLngStrings,
            radius : {None} \cup Numerals, type : {None},
            min_rating : {None} \cup Numerals, open_now : {FALSE},
            language : {None}, max_results : {None} \cup Numerals,
            fields : {None}]
      [] c = "places-nearby" ->
           [command : Name(c), lat : {Lat}, lng : {Lng},
            radius : {IntV(500), Str(<<>>)} \cup Numerals, type : {None},
            language : {None}, max_results : {None} \cup Numerals,
            fields : {None, Str(<<>>), T("places.id")}]
      [] c = "place-details" ->
           [command : Name(c), place_id : {T("ChIJ")},
            fields : {None, Str(<<>>), T("id")}]
      [] c = "autocomplete" ->
           [command : Name(c), input : {T("piz")},
            location : {None} \cup LatLngStrings,
            radius : {None} \cup Numerals, language : {None},
            region : {None}, types : {None}]
      [] c = "place-photo" ->
           [command : Name(c), photo_ref : {T("places/p/photos/q")},
            max_height : {IntV(400), IntV(0)}, max_width : {IntV(400)}]
      [] c = "elevation" ->
           [command : Name(c), lat : {None, Lat}, lng : {None, Lng},
            locations : Opt("1,2|3,4"), path : Opt("1,2|3,4"),
            samples : {None, IntV(5)}]
      [] c = "timezone" ->
           [command : Name(c), lat : {Lat}, lng : {Lng},
            timestamp : {None, Str(<<>>), T("1700000000")}, language : {None}]
      [] c = "air-quality" ->
           [command : Name(c), lat : {Lat}, lng : {Lng}, health : BOOLEAN,
            pollutants : BOOLEAN, language : {None}]
      [] c = "air-quality-history" ->
           [command : Name(c), lat : {Lat}, lng : {Lng},
            hours : {IntV(24), Str(<<>>)} \cup Numerals, language : {None}]
      [] c = "air-quality-forecast" ->
           [command : Name(c), lat : {Lat}, lng : {Lng}, language : Opt("fr")]
      [] c = "pollen" ->
           [command : Name(c), lat : {Lat}, lng : {Lng},
            days : {IntV(3), IntV(0), IntV(5)}, language : {None}]
      [] c = "solar" ->
           [command : Name(c), lat : {Lat}, lng : {Lng}, quality : Opt("HIGH")]
      [] c = "solar-layers" ->
           [command : Name(c), lat : {Lat}, lng : {Lng},
            radius : {IntV(50), FloatV(0), FloatV(75)}, quality : {None},
            pixel_size : {None}]
      [] c = "weather" ->
           [command : Name(c), lat : {Lat}, lng : {Lng},
            mode : {T("current"), T("hourly"), T("daily"), T("history")},
            hours : {None, IntV(6)}, days : {None, IntV(2)}, language : {None}]
      [] c = "validate-address" ->
           [command : Name(c), address : {T("1 Main St")}, region : Opt("US"),
            locality : {None}, enable_usps : BOOLEAN]
      [] c = "snap-roads" ->
           [command : Name(c), path : {T("1,2|3,4")}, interpolate : BOOLEAN]
      [] c = "nearest-roads" ->
           [command : Name(c), points : {T("1,2|3,4")}]
      [] c = "streetview" ->
           {[command |-> T(c), lat |-> ll[1], lng |-> ll[2], location |-> loc,
             pano |-> pano, size |-> T("600x400"), heading |-> None,
             pitch |-> None, fov |-> None, output |-> output] :
                ll \in LatLngPairs, loc \in Opt("Eiffel Tower"),
                pano \in Opt("abc123") \cup {Str(<<>>)},
                output \in Opt("sv.jpg")}
      [] c = "static-map" ->
           {[command |-> T(c), lat |-> ll[1], lng |-> ll[2], center |-> center,
             zoom |-> zoom, size |-> T("600x400"), maptype |-> T("roadmap"),
             format |-> T("png"), markers |-> None, path_line |-> None,
             style |-> None, scale |-> None, output |-> output] :
                ll \in LatLngPairs, center \in Opt("Paris"),
                zoom \in {IntV(14), IntV(0)}, output \in Opt("m.png")}
      [] c = "geolocation" ->
           [command : Name(c),
            wifi : {None, List(<<<<"a", "a", ",", "-", "6", "0">>>>),
                    List(<<<<"a", "a">>, <<"b", "b", ",", "x">>>>)},
            cell : {None, List(<<<<"1", ",", "2", ",", "3", ",", "4">>>>),
                    List(<<<<"1", ",", "x">>>>), List(<<<<"4", "2">>>>)},
            consider_ip : {BoolV(TRUE)}]
      [] c = "aerial-view" ->
           [command : Name(c), action : {T("check"), T("render"), T("get")},
            address : Opt("1 Main St"), video_id : Opt("vid")]
      [] c = "route-optimize" ->
           [command : Name(c), input : {T("tours.json")},
            input_file : InputFiles, project : Opt("proj")]
      [] c = "places-aggregate" ->
           [command : Name(c), location : {None} \cup LatLngStrings,
            radius : {None} \cup Numerals, type : {None},
            min_rating : {None} \cup Numerals, price_levels : {None},
            insight : {T("INSIGHT_COUNT")}]
      [] c = "embed-url" ->
           {[command |-> T(c), mode |-> mode, query |-> q, origin |-> None,
             destination |-> None, waypoints_str |-> None, lat |-> ll[1],
             lng |-> ll[2], center |-> None, location |-> None, zoom |-> None,
             heading |-> None] :
                mode \in {T("place"), T("directions"), T("search"), T("view"),
                          T("streetview")},
                q \in Opt("cafe"), ll \in LatLngPairs}

\* argparse exits with a usage error: --mode of directions has choices
directions_choices == {driving, walking, bicycling, transit, two_wheeler}

parse_rejects(a) ==
    a.command = T("directions") /\ a.mode.v \notin directions_choices

\* args.func(args): what the command function does before anything is sent
\* (now is the clock reading; cmd_embed_url starts with load_api_key)
Command(a, now) ==
    LET c == a.command.v[1] IN
    CASE c = "geocode" -> cmd_geocode(a)
      [] c = "reverse-geocode" -> cmd_reverse_geocode(a)
      [] c = "directions" -> cmd_directions(a)
      [] c = "distance-matrix" -> cmd_distance_matrix(a)
      [] c = "places-search" -> cmd_places_search(a)
      [] c = "places-nearby" -> cmd_places_nearby(a)
      [] c = "place-details" -> cmd_place_details(a)
      [] c = "autocomplete" -> cmd_autocomplete(a)
      [] c = "place-photo" -> cmd_place_photo(a)
      [] c = "elevation" -> cmd_elevation(a)
      [] c = "timezone" -> cmd_timezone(a, now)
      [] c = "air-quality" -> cmd_air_quality(a)
      [] c = "air-quality-history" -> cmd_air_quality_history(a)
      [] c = "air-quality-forecast" -> cmd_air_quality_forecast(a)
      [] c = "pollen" -> cmd_pollen(a)
      [] c = "solar" -> cmd_solar(a)
      [] c = "solar-layers" -> cmd_solar_layers(a)
      [] c = "weather" -> cmd_weather(a)
      [] c = "validate-address" -> cmd_validate_address(a)
      [] c = "snap-roads" -> cmd_snap_roads(a)
      [] c = "nearest-roads" -> cmd_nearest_roads(a)
      [] c = "streetview" -> cmd_streetview(a)
      [] c = "static-map" -> cmd_static_map(a)
      [] c = "geolocation" -> cmd_geolocation(a)
      [] c = "aerial-view" -> cmd_aerial_view(a)
      [] c = "route-optimize" -> cmd_route_optimize(a)
      [] c = "places-aggregate" -> cmd_places_aggregate(a)
      [] c = "embed-url" -> [kind |-> "embed"]

-----------------------------------------------------------------------------
(* The process environment explored *)

\* the variable unset, set to the empty string, set to a key
EnvValues == {None, Str(<<>>), T("env-key")}

Positions == 1..Len(search_paths)

\* lines of a .env file
CommentLine == <<"#", KEYNAME, "=", "c">>
BareLine == <<KEYNAME>>
OtherLine == <<"O", "T", "H", "E", "R", "=", "o">>
PlainLine == <<KEYNAME, "=", "a">>
QuotedLine == <<" ", KEYNAME, " ", "=", " ", "\"", "b", "'", " ">>
EmptyValueLine == <<KEYNAME, "=", "'", "'">>
ExportLine == <<"e", "x", "p", "o", "r", "t", " ", KEYNAME, "=", "x">>
EqualsLine == <<KEYNAME, "=", "a", "=", "b">>

LineSet ==
    {CommentLine, BareLine, OtherLine, PlainLine, QuotedLine, EmptyValueLine,
     ExportLine, EqualsLine}

\* a file at search position p that holds a key of its own
KeyFile(p) == File(<<CommentLine, <<KEYNAME, "=", "file-key-" \o ToString(p)>>>>)
NoKeyFile == File(<<CommentLine, BareLine, OtherLine>>)
EmptyValueFile == File(<<EmptyValueLine>>)

NoFiles == [p \in Positions |-> NoFile]

\* at most one candidate file exists
OneFile ==
    {NoFiles} \cup
    UNION {{[NoFiles EXCEPT ![p] = f] :
               f \in {KeyFile(p), NoKeyFile, EmptyValueFile}} : p \in Positions}

\* longest .env file explored line by line
MaxLines == 2

RECURSIVE SeqsUpTo(_, _)
SeqsUpTo(S, n) ==
    IF n = 0 THEN {<<>>}
    ELSE LET shorter == SeqsUpTo(S, n - 1) IN
         shorter \cup {Append(q, x) : q \in shorter, x \in S}

\* one file of up to MaxLines lines at some position, and at each other
\* position no file or a file with a key of its own
ManyFiles ==
    {[p \in Positions |->
         IF p = at THEN File(lines)
         ELSE IF others[p] THEN KeyFile(p) ELSE NoFile] :
        at \in Positions, lines \in SeqsUpTo(LineSet, MaxLines),
        others \in [Positions -> BOOLEAN]}

-----------------------------------------------------------------------------
(* What the upstream service and the network can answer *)

\* int(time.time())
Clock == {1700000000, 1700000001}

ContentTypes ==
    {<<"application/", "json", "; charset=UTF-8">>, <<"image/", "jpeg">>, <<>>}

Payloads ==
    {Payload(<<123, 125>>, JsonText(Dict([status |-> T("OK")]))),
     Payload(<<123, 34, 112>>, JsonText(Dict([photoUri |-> T("https://p")]))),
     Payload(<<255, 216, 255, 224>>, NotJson(<<"JFIF">>)),
     Payload(<<>>, NotJson(<<>>))}

\* a 2xx response: its Content-Type header ("" when absent) and its body
Responses == [ct : ContentTypes, raw : Payloads]

\* the statuses urllib raises HTTPError for, and the error bodies
ErrorCodes == {400, 403, 404, 500}
ErrorBodies ==
    {JsonText(Dict([error |-> T("NOT_FOUND")])), NotJson(<<"<html>">>),
     NotJson(<<>>)}

Help == [usage |-> "gmaps", help |-> TRUE]
UsageError == [usage |-> "gmaps", error |-> "invalid choice"]
Traceback(exc) == [traceback |-> exc]

-----------------------------------------------------------------------------
(* The invocation *)

Init ==
    /\ environ \in EnvValues
    /\ files \in OneFile
    /\ pc = "start"
    /\ args = None
    /\ keyState = "unresolved"
    /\ key = None
    /\ request = None
    /\ netCalls = 0
    /\ response = None
    /\ stdout = <<>>
    /\ stderr = <<>>
    /\ written = EmptyDict
    /\ exitCode = None

\* sys.exit(code), or the interpreter ending after an uncaught exception
Exit(code) == pc' = "done" /\ exitCode' = IntV(code)

\* mutant: the invocation without a subcommand prints help and exits 0
Main_help_exits_zero ==
    /\ pc = "start"
    /\ \E c \in Commands \cup {NoCommand} : \E a \in Argv(c) :
         IF parse_rejects(a)
         THEN /\ stderr' = Append(stderr, UsageError)
              /\ Exit(2)
              /\ UNCHANGED <<args, stdout>>
         ELSE IF ~Truthy(a.command)
         THEN /\ stdout' = Append(stdout, Help)
              /\ Exit(0)
              /\ UNCHANGED <<args, stderr>>
         ELSE /\ args' = a
              /\ pc' = "parsed"
              /\ UNCHANGED <<stdout, stderr, exitCode>>
    /\ UNCHANGED <<environ, files, keyState, key, request, netCalls, response,
                   written>>

\* main() up to args.func(args): parse_args, and the missing-subcommand exit
Main ==
    /\ pc = "start"
    /\ \E c \in Commands \cup {NoCommand} : \E a \in Argv(c) :
         IF parse_rejects(a)
         THEN /\ stderr' = Append(stderr, UsageError)
              /\ Exit(2)
              /\ UNCHANGED <<args, stdout>>
         ELSE IF ~Truthy(a.command)
         THEN /\ stdout' = Append(stdout, Help)
              /\ Exit(1)
              /\ UNCHANGED <<args, stderr>>
         ELSE /\ args' = a
              /\ pc' = "parsed"
              /\ UNCHANGED <<stdout, stderr, exitCode>>
    /\ UNCHANGED <<environ, files, keyState, key, request, netCalls, response,
                   written>>

\* mutant: the embed URL document is stamped with the clock reading
RunCommand_stamps_embed ==
    /\ pc = "parsed"
    /\ \E now \in Clock :
         LET c == Command(args, now)
             k == load_api_key(environ, files)
         IN
         IF c.kind = "raise"
         THEN /\ stderr' = Append(stderr, Traceback(c.exc))
              /\ Exit(1)
              /\ UNCHANGED <<keyState, key, request, netCalls, stdout>>
         ELSE IF c.kind = "return"
         THEN /\ Exit(0)
              /\ UNCHANGED <<keyState, key, request, netCalls, stdout, stderr>>
         ELSE IF ~k[1]
         THEN /\ keyState' = "missing"
              /\ stderr' = stderr \o MissingKeyMessage
              /\ Exit(1)
              /\ UNCHANGED <<key, request, netCalls, stdout>>
         ELSE IF c.kind = "embed"
         THEN /\ keyState' = "ok"
              /\ key' = Str(k[2])
              /\ stdout' = Append(stdout, [fmt |-> "json", indent |-> 2,
                                           ensure_ascii |-> TRUE,
                                           doc |-> Dict(Put(cmd_embed_url(args, k[2]),
                                                          "generated_at", IntV(now)))])
              /\ Exit(0)
              /\ UNCHANGED <<request, netCalls, stderr>>
         ELSE /\ keyState' = "ok"
              /\ key' = Str(k[2])
              /\ request' = HelperRequest(c, k[2])
              /\ netCalls' = netCalls + 1
              /\ pc' = "urlopen"
              /\ UNCHANGED <<stdout, stderr, exitCode>>
    /\ UNCHANGED <<environ, files, args, response, written>>

\* args.func(args) up to the urlopen call: the command function builds its
\* parameters, the api helper resolves the key and _request builds the
\* request; or the command raises, or load_api_key exits
RunCommand ==
    /\ pc = "parsed"
    /\ \E now \in Clock :
         LET c == Command(args, now)
             k == load_api_key(environ, files)
         IN
         IF c.kind = "raise"
         THEN /\ stderr' = Append(stderr, Traceback(c.exc))
              /\ Exit(1)
              /\ UNCHANGED <<keyState, key, request, netCalls, stdout>>
         ELSE IF c.kind = "return"
         THEN /\ Exit(0)
              /\ UNCHANGED <<keyState, key, request, netCalls, stdout, stderr>>
         ELSE IF ~k[1]
         THEN /\ keyState' = "missing"
              /\ stderr' = stderr \o MissingKeyMessage
              /\ Exit(1)
              /\ UNCHANGED <<key, request, netCalls, stdout>>
         ELSE IF c.kind = "embed"
         THEN /\ keyState' = "ok"
              /\ key' = Str(k[2])
              /\ stdout' = Append(stdout, [fmt |-> "json", indent |-> 2,
                                           ensure_ascii |-> TRUE,
                                           doc |-> Dict(cmd_embed_url(args, k[2]))])
              /\ Exit(0)
              /\ UNCHANGED <<request, netCalls, stderr>>
         ELSE /\ keyState' = "ok"
              /\ key' = Str(k[2])
              /\ request' = HelperRequest(c, k[2])
              /\ netCalls' = netCalls + 1
              /\ pc' = "urlopen"
              /\ UNCHANGED <<stdout, stderr, exitCode>>
    /\ UNCHANGED <<environ, files, args, response, written>>

\* the call the command made (the clock reading does not change which)
Call == Command(args, CHOOSE now \in Clock : TRUE)

\* download_file after _request returned data
Downloaded(data) == Call.helper = "download_file" /\ data.t = "bytes"

\* mutant: the downloaded bytes are handed to out() as they are
Printed_raw(data) == out(data)

\* what the command prints once its helper returned data
Printed(data) ==
    IF Downloaded(data)
    THEN out(Dict([saved |-> Str(str(Call.output)),
                   size_bytes |-> IntV(Len(data.octets))]))
    ELSE IF /\ args.command = T("place-photo")
            /\ data.t = "dict"
            /\ "photoUri" \in DOMAIN data.v
    THEN [fmt |-> "json", indent |-> 2, ensure_ascii |-> TRUE, doc |-> data]
    ELSE out(data)

\* urlopen returns a 2xx response: _request decodes it, download_file saves
\* it, the command prints it
Respond ==
    /\ pc = "urlopen"
    /\ Transmits(request)
    /\ \E resp \in Responses :
         /\ response' = [kind |-> "2xx", ct |-> resp.ct, raw |-> resp.raw]
         /\ IF JsonContentType(resp.ct) /\ ~resp.raw.text.json
            THEN /\ stderr' = Append(stderr, Traceback("JSONDecodeError"))
                 /\ Exit(1)
                 /\ UNCHANGED <<stdout, written>>
            ELSE LET data == IF JsonContentType(resp.ct) THEN resp.raw.text.doc
                             ELSE resp.raw
                 IN /\ written' = IF Downloaded(data)
                                  THEN Put(written, str(Call.output), data.octets)
                                  ELSE written
                    /\ stdout' = Append(stdout, Printed(data))
                    /\ Exit(0)
                    /\ UNCHANGED stderr
    /\ UNCHANGED <<environ, files, args, keyState, key, request, netCalls>>

\* f"HTTP {e.code} Error:\n{err}", err re-rendered when it decodes as JSON
http_error_message(code, body) ==
    [http |-> code,
     err |-> IF body.json THEN [json |-> TRUE, indent |-> 2, doc |-> body.doc]
             ELSE body]

\* mutant: the request is sent again after an HTTP error
RespondHTTPError_retries ==
    /\ pc = "urlopen"
    /\ Transmits(request)
    /\ \E code \in ErrorCodes, body \in ErrorBodies :
         /\ response' = [kind |-> "HTTPError", code |-> code, body |-> body]
         /\ stderr' = Append(stderr, http_error_message(code, body))
    /\ netCalls' = netCalls + 1
    /\ UNCHANGED <<environ, files, pc, args, keyState, key, request, stdout,
                   written, exitCode>>

\* mutant: the error is handed back to the command, which prints it
RespondHTTPError_returns_error ==
    /\ pc = "urlopen"
    /\ Transmits(request)
    /\ \E code \in ErrorCodes, body \in ErrorBodies :
         /\ response' = [kind |-> "HTTPError", code |-> code, body |-> body]
         /\ stdout' = Append(stdout, http_error_message(code, body))
    /\ Exit(0)
    /\ UNCHANGED <<environ, files, args, keyState, key, request, netCalls,
                   stderr, written>>

\* mutant: the error message goes to standard output
RespondHTTPError_prints_to_stdout ==
    /\ pc = "urlopen"
    /\ Transmits(request)
    /\ \E code \in ErrorCodes, body \in ErrorBodies :
         /\ response' = [kind |-> "HTTPError", code |-> code, body |-> body]
         /\ stdout' = Append(stdout, http_error_message(code, body))
    /\ Exit(1)
    /\ UNCHANGED <<environ, files, args, keyState, key, request, netCalls,
                   stderr, written>>

\* urlopen raises HTTPError: _request prints the status and body and exits
RespondHTTPError ==
    /\ pc = "urlopen"
    /\ Transmits(request)
    /\ \E code \in ErrorCodes, body \in ErrorBodies :
         /\ response' = [kind |-> "HTTPError", code |-> code, body |-> body]
         /\ stderr' = Append(stderr, http_error_message(code, body))
    /\ Exit(1)
    /\ UNCHANGED <<environ, files, args, keyState, key, request, netCalls,
                   stdout, written>>

\* urlopen raises URLError (no route, TLS failure): nothing catches it
RespondURLError ==
    /\ pc = "urlopen"
    /\ response' = [kind |-> "URLError"]
    /\ stderr' = Append(stderr, Traceback("URLError"))
    /\ Exit(1)
    /\ UNCHANGED <<environ, files, args, keyState, key, request, netCalls,
                   stdout, written>>

\* http.client raises TypeError on a body that is neither None nor bytes
RespondTypeError ==
    /\ pc = "urlopen"
    /\ ~Transmits(request)
    /\ response' = [kind |-> "TypeError"]
    /\ stderr' = Append(stderr, Traceback("TypeError"))
    /\ Exit(1)
    /\ UNCHANGED <<environ, files, args, keyState, key, request, netCalls,
                   stdout, written>>

Next ==
    \/ Main
    \/ RunCommand
    \/ Respond
    \/ RespondHTTPError
    \/ RespondURLError
    \/ RespondTypeError

Spec == Init /\ [][Next]_vars

-----------------------------------------------------------------------------
(* The credential resolver on its own: embed-url, the command that only    *)
(* resolves the key and prints, run over .env files explored line by line  *)

InitKey ==
    /\ environ \in EnvValues
    /\ files \in ManyFiles
    /\ pc = "parsed"
    /\ args \in {a \in Argv("embed-url") : a.mode = T("place") /\ a.lat = None}
    /\ keyState = "unresolved"
    /\ key = None
    /\ request = None
    /\ netCalls = 0
    /\ response = None
    /\ stdout = <<>>
    /\ stderr = <<>>
    /\ written = EmptyDict
    /\ exitCode = None

SpecKey == InitKey /\ [][RunCommand]_vars

-----------------------------------------------------------------------------
(* The dispatcher on its own: _request applied to the arguments a caller   *)
(* can pass it, up to the urlopen call                                      *)

Urls ==
    {Url(<<"https://maps.googleapis.com/maps/api/geocode/json">>,
         [key |-> <<"k">>]),
     Url(<<"https://places.googleapis.com/v1/places/ChIJ">>, EmptyDict)}

Methods == {"GET", "POST"}

Bodies ==
    {None, Dict(EmptyDict), Dict([textQuery |-> T("pizza")]), T("raw"),
     List(<<IntV(1)>>)}

\* the headers argument: absent, empty, a field mask, a Content-Type, and
\* header sets that name User-Agent themselves
CallerHeaders ==
    {None,
     Dict(EmptyDict),
     Dict(Put(EmptyDict, "X-Goog-FieldMask", T("id"))),
     Dict(Put(EmptyDict, "Content-Type", T("text/plain"))),
     Dict(Put(EmptyDict, "User-Agent", T("curl/8"))),
     Dict(Put(Put(EmptyDict, "User-Agent", T("curl/8")),
              "X-Goog-FieldMask", T("id")))}

InitRequest ==
    /\ environ = None
    /\ files = NoFiles
    /\ pc = "dispatch"
    /\ args \in [url : Urls, method : Methods, body : Bodies,
                 headers : CallerHeaders]
    /\ keyState = "unresolved"
    /\ key = None
    /\ request = None
    /\ netCalls = 0
    /\ response = None
    /\ stdout = <<>>
    /\ stderr = <<>>
    /\ written = EmptyDict
    /\ exitCode = None

\* _request(url, method, body, headers) up to the urlopen call
Dispatch ==
    /\ pc = "dispatch"
    /\ request' = _request(args.url, args.method, args.body, args.headers)
    /\ netCalls' = netCalls + 1
    /\ pc' = "urlopen"
    /\ UNCHANGED <<environ, files, args, keyState, key, response, stdout,
                   stderr, written, exitCode>>

SpecRequest == InitRequest /\ [][Dispatch]_vars

-----------------------------------------------------------------------------
(* Properties: credential resolution *)

\* a line of the explored .env files that assigns the key: every explored
\* line but the comment, the line without "=", the line naming another
\* variable and the line whose name part is "export GOOGLE_MAPS_API_KEY"
AssignsKey(line) == line \notin {CommentLine, BareLine, OtherLine, ExportLine}

\* the value such a line assigns, quotes and blanks around it removed
AssignedValue(line) ==
    CASE line = PlainLine -> <<"a">>
      [] line = QuotedLine -> <<"b">>
      [] line = EmptyValueLine -> <<>>
      [] line = EqualsLine -> <<"a", "=", "b">>
      [] OTHER -> <<line[3]>>

HoldsKey(f) == f.exists /\ \E i \in DOMAIN f.lines : AssignsKey(f.lines[i])

FirstAssigned(f) ==
    LET i == CHOOSE i \in DOMAIN f.lines :
                 /\ AssignsKey(f.lines[i])
                 /\ \A j \in 1..(i - 1) : ~AssignsKey(f.lines[j])
    IN AssignedValue(f.lines[i])

EnvHoldsKey == environ # None /\ environ.v # <<>>

\* the key is in neither the environment variable nor any candidate file
NoCredential == ~EnvHoldsKey /\ \A p \in Positions : ~HoldsKey(files[p])

\* the command function reaches its api helper (it raises nothing before)
ReachesHelper ==
    args # None /\ Command(args, CHOOSE now \in Clock : TRUE).kind # "raise"

\* C1: with the key in neither the environment variable nor any of the four
\* candidate .env files, no request is ever built or sent, the invocation
\* never ends with status 0, and every command that reaches its api helper
\* ends with the two-line "not found" message on stderr, nothing on stdout
\* and exit status 1.
C1_NoCredentialNoCall ==
    NoCredential =>
        /\ netCalls = 0
        /\ request = None
        /\ response = None
        /\ keyState # "ok"
        /\ pc = "done" => exitCode # IntV(0)
        /\ (pc = "done" /\ ReachesHelper) =>
               /\ keyState = "missing"
               /\ stderr = MissingKeyMessage
               /\ stdout = <<>>
               /\ exitCode = IntV(1)

C1_Witness ==
    /\ NoCredential
    /\ files[2].exists
    /\ pc = "done"
    /\ args # None
    /\ args.command = T("geocode")
    /\ keyState = "missing"
    /\ exitCode = IntV(1)

\* the source credential resolution must take the key from: 0 for the
\* environment variable, else the first candidate file that holds the key
FirstSource ==
    IF EnvHoldsKey THEN 0
    ELSE CHOOSE p \in Positions :
             HoldsKey(files[p]) /\ \A q \in 1..(p - 1) : ~HoldsKey(files[q])

\* C2: credential resolution returns the value of the first source that
\* yields the key, in the order environment variable, ./.env, ~/.env, the
\* script's parent directory, the script's directory; within a file the
\* first line assigning the key wins, comment lines and lines without "="
\* are skipped, quotes around the value are stripped, a file without the key
\* does not stop the search, and a later source never overrides an earlier
\* one; with no source holding the key resolution fails.
C2_FirstSourceWins ==
    pc = "done" =>
        IF NoCredential THEN keyState = "missing" /\ key = None
        ELSE /\ keyState = "ok"
             /\ key = Str(IF FirstSource = 0 THEN environ.v
                          ELSE FirstAssigned(files[FirstSource]))
             /\ Len(stdout) = 1
             /\ stdout[1].doc.v.embed_url.query.key = key.v

C2_Witness ==
    /\ ~EnvHoldsKey
    /\ files[1] = File(<<CommentLine, BareLine>>)
    /\ files[2] = KeyFile(2)
    /\ files[3] = KeyFile(3)
    /\ pc = "done"
    /\ key = Str(<<"file-key-2">>)

-----------------------------------------------------------------------------
(* Properties: the single network call and its failure *)

\* C3: an invocation issues at most one outbound call: once a key is
\* resolved every command but embed-url (each aerial-view action and each
\* weather mode among them) has issued exactly one call when it ends, and
\* whatever the call returned or raised, none follows it.
C3_OneCall ==
    /\ netCalls <= 1
    /\ response # None => netCalls = 1 /\ pc = "done"
    /\ (pc = "done" /\ keyState = "ok" /\ args.command # T("embed-url")) =>
           netCalls = 1 /\ response # None
    /\ (pc = "done" /\ keyState = "ok" /\ args.command = T("embed-url")) =>
           netCalls = 0

C3_Witness ==
    /\ pc = "done"
    /\ args # None
    /\ args.command = T("aerial-view")
    /\ args.action = T("render")
    /\ response # None
    /\ response.kind = "HTTPError"
    /\ netCalls = 1

\* C4: when the upstream answers with a non-2xx status, the process ends at
\* once with status 1, having written to stderr the status code and the
\* error body (re-rendered as JSON indented by 2 when it decodes as JSON,
\* the raw text otherwise); nothing reaches stdout or a file, so the error
\* is not handed to the command, and the request was sent once.
C4_HTTPErrorIsFatal ==
    (response # None /\ response.kind = "HTTPError") =>
        /\ pc = "done"
        /\ exitCode = IntV(1)
        /\ netCalls = 1
        /\ stdout = <<>>
        /\ written = EmptyDict
        /\ stderr = <<[http |-> response.code,
                       err |-> IF response.body.json
                               THEN [json |-> TRUE, indent |-> 2,
                                     doc |-> response.body.doc]
                               ELSE response.body]>>

C4_Witness ==
    /\ response # None
    /\ response.kind = "HTTPError"
    /\ response.code = 404
    /\ response.body.json
    /\ pc = "done"
    /\ exitCode = IntV(1)

\* the invocation without a subcommand: main prints the help text to
\* stdout and exits with status 1
HelpPrinted ==
    args = None /\ exitCode = IntV(1) /\ stdout = <<Help>> /\ stderr = <<>>

\* C5 as stated: in any invocation that ends in failure nothing has been
\* written to standard output and no output file has been written.
C5_Original ==
    (pc = "done" /\ exitCode # IntV(0)) => stdout = <<>> /\ written = EmptyDict

\* C5: an invocation that ends in failure has written no output file, and
\* has written nothing to stdout unless it is the invocation without a
\* subcommand, whose help text goes to stdout before it exits with status
\* 1; an invocation that ends with status 0 has printed exactly one
\* rendering and nothing on stderr, and only it may have written a file.
C5_AllOrNothing ==
    /\ (pc = "done" /\ exitCode # IntV(0)) =>
           /\ written = EmptyDict
           /\ stdout = <<>> \/ HelpPrinted
    /\ (pc = "done" /\ exitCode = IntV(0)) => Len(stdout) = 1 /\ stderr = <<>>
    /\ pc # "done" => stdout = <<>> /\ written = EmptyDict

C5_Witness ==
    /\ pc = "done"
    /\ args # None
    /\ args.command = T("streetview")
    /\ args.output = T("sv.jpg")
    /\ response # None
    /\ response.kind = "HTTPError"
    /\ exitCode = IntV(1)
    /\ stdout = <<>>
    /\ written = EmptyDict

-----------------------------------------------------------------------------
(* Properties: local input errors *)

\* the explored argument strings that are not what the flag asks for
NotANumber(x) == x = Str(<<"a", "b", "c">>)
NotLatLng(x) == x \in {Str(<<"a", ",", "b">>), Str(<<"1">>)}
BadWifi(x) == x = List(<<<<"a", "a">>, <<"b", "b", ",", "x">>>>)
BadCell(x) == x = List(<<<<"1", ",", "x">>>>)
BadInputFile(f) == ~f.exists \/ ~f.text.json

\* some argument of the invocation is malformed
MalformedInput(a) ==
    LET c == a.command.v[1] IN
    CASE c = "places-search" ->
             \/ NotLatLng(a.location) \/ NotANumber(a.radius)
             \/ NotANumber(a.min_rating) \/ NotANumber(a.max_results)
      [] c = "places-nearby" -> NotANumber(a.radius) \/ NotANumber(a.max_results)
      [] c = "autocomplete" -> NotLatLng(a.location) \/ NotANumber(a.radius)
      [] c = "places-aggregate" ->
             \/ NotLatLng(a.location) \/ NotANumber(a.radius)
             \/ NotANumber(a.min_rating)
      [] c = "air-quality-history" -> NotANumber(a.hours)
      [] c = "geolocation" -> BadWifi(a.wifi) \/ BadCell(a.cell)
      [] c = "route-optimize" -> BadInputFile(a.input_file)
      [] OTHER -> FALSE

\* some malformed argument is one the command reads: --radius is read by
\* places-search, autocomplete and places-aggregate only next to --location
ReadMalformedInput(a) ==
    LET c == a.command.v[1] IN
    CASE c = "places-search" ->
             \/ NotLatLng(a.location)
             \/ a.location # None /\ NotANumber(a.radius)
             \/ NotANumber(a.min_rating) \/ NotANumber(a.max_results)
      [] c = "places-nearby" -> NotANumber(a.radius) \/ NotANumber(a.max_results)
      [] c = "autocomplete" ->
             NotLatLng(a.location) \/ (a.location # None /\ NotANumber(a.radius))
      [] c = "places-aggregate" ->
             \/ NotLatLng(a.location)
             \/ a.location # None /\ NotANumber(a.radius)
             \/ NotANumber(a.min_rating)
      [] c = "air-quality-history" -> NotANumber(a.hours)
      [] c = "geolocation" -> BadWifi(a.wifi) \/ BadCell(a.cell)
      [] c = "route-optimize" -> BadInputFile(a.input_file)
      [] OTHER -> FALSE

-----------------------------------------------------------------------------
(* Properties: the outgoing request *)

\* the headers argument as a dict (None and {} add nothing)
Supplied == IF args.headers = None THEN EmptyDict ELSE args.headers.v

FieldMaskHelpers == {"api_get_fieldmask", "api_post_fieldmask"}

\* field selections a field-mask helper can be given
FieldSelections == {None, Str(<<>>), T("id")}

\* r carries k as its "key" query parameter, and the field-mask header
\* exactly when the selection f is non-empty
KeyAndMask(r, k, f) ==
    /\ "key" \in DOMAIN r.url.query
    /\ r.url.query["key"] = k
    /\ ("X-Goog-FieldMask" \in DOMAIN r.headers) <=> (f # None /\ f.v # <<>>)
    /\ "X-Goog-FieldMask" \in DOMAIN r.headers =>
           r.headers["X-Goog-FieldMask"] = f

\* C8: every request the program builds, GET or POST, has the resolved key
\* as the "key" parameter of its query string; a request built by a
\* field-mask helper has the X-Goog-FieldMask header exactly when the
\* helper is given a non-empty field selection (whatever selection it is
\* given), next to the key parameter, and no other request has the header.
C8_KeyInQuery ==
    request # None =>
        /\ key # None
        /\ "key" \in DOMAIN request.url.query
        /\ request.url.query["key"] = key.v
        /\ request.method \in {"GET", "POST"}
        /\ IF Call.helper \in FieldMaskHelpers
           THEN KeyAndMask(request, key.v, Call.fields)
           ELSE "X-Goog-FieldMask" \notin DOMAIN request.headers
        /\ \A f \in FieldSelections :
               /\ KeyAndMask(api_get_fieldmask(request.url.base, EmptyDict, f,
                                               key.v), key.v, f)
               /\ KeyAndMask(api_post_fieldmask(request.url.base,
                                                Dict(EmptyDict), f, key.v),
                             key.v, f)

C8_Witness ==
    /\ request # None
    /\ request.method = "POST"
    /\ Call.helper = "api_post_fieldmask"
    /\ "X-Goog-FieldMask" \in DOMAIN request.headers
    /\ request.url.query["key"] = <<"env-key">>

-----------------------------------------------------------------------------
(* Properties: travel modes *)

\* the upstream enum documented for each travel mode, DRIVE for any other
UpstreamMode(m) ==
    CASE m = driving -> DRIVE
      [] m = walking -> WALK
      [] m = bicycling -> BICYCLE
      [] m = transit -> TRANSIT
      [] m = two_wheeler -> TWO_WHEELER
      [] OTHER -> DRIVE

ModeStrings ==
    {driving, walking, bicycling, transit, two_wheeler, flying, <<>>}

\* C9: the directions request carries, for each recognized travel mode,
\* the upstream enum (driving->DRIVE, walking->WALK, bicycling->BICYCLE,
\* transit->TRANSIT, two_wheeler->TWO_WHEELER), and cmd_directions given
\* any other mode builds a body whose travelMode is DRIVE.
C9_DirectionsMode ==
    (args # None /\ args.command = T("directions")) =>
        /\ request # None =>
               request.data.text.doc.travelMode = Str(UpstreamMode(args.mode.v))
        /\ \A m \in ModeStrings :
               cmd_directions([args EXCEPT !.mode = Str(m)]).data.v.travelMode
                   = Str(UpstreamMode(m))

C9_Witness ==
    /\ args # None
    /\ args.command = T("directions")
    /\ args.mode = Str(bicycling)
    /\ request # None
    /\ request.data.text.doc.travelMode = Str(BICYCLE)

\* C10 as stated: the distance-matrix request carries, for each recognized
\* travel mode (the default driving included), the upstream enum, and DRIVE
\* for an unrecognized mode.
C10_DistanceMatrixMode ==
    (request # None /\ args.command = T("distance-matrix")) =>
        request.data.text.doc.travelMode = Str(UpstreamMode(args.mode.v))

\* the request distance-matrix sends for the default mode
C10_Witness ==
    /\ request # None
    /\ args.command = T("distance-matrix")
    /\ args.mode = Str(driving)
    /\ request.data.text.doc.travelMode =
           Str(<<"D", "R", "I", "V", "I", "N", "G">>)

-----------------------------------------------------------------------------
(* Properties: request bodies and parameter sets *)

\* the route modifiers the avoidance flags of a ask for
AvoidanceSet(a) ==
    (IF a.avoid_tolls THEN {"avoidTolls"} ELSE {})
        \cup (IF a.avoid_highways THEN {"avoidHighways"} ELSE {})
        \cup (IF a.avoid_ferries THEN {"avoidFerries"} ELSE {})

\* C11: in the directions request body computeAlternativeRoutes equals the
\* --alternatives flag, and routeModifiers is present exactly when one of
\* --avoid-tolls, --avoid-highways, --avoid-ferries is set; it then holds
\* exactly the entries of the flags set, each true.
C11_RouteModifiers ==
    (request # None /\ args.command = T("directions")) =>
        LET body == request.data.text.doc IN
        /\ body.computeAlternativeRoutes = args.alternatives
        /\ ("routeModifiers" \in DOMAIN body) <=> (AvoidanceSet(args) # {})
        /\ "routeModifiers" \in DOMAIN body =>
               /\ DOMAIN body.routeModifiers = AvoidanceSet(args)
               /\ \A m \in AvoidanceSet(args) : body.routeModifiers[m] = TRUE

C11_Witness ==
    /\ request # None
    /\ args.command = T("directions")
    /\ args.alternatives
    /\ args.avoid_tolls /\ ~args.avoid_highways /\ args.avoid_ferries
    /\ DOMAIN request.data.text.doc.routeModifiers = {"avoidTolls", "avoidFerries"}

\* a panorama identifier is supplied (an empty --pano names no panorama)
PanoSupplied(a) == a.pano # None /\ a.pano.v # <<>>

\* C12: the streetview request has, whenever a panorama identifier is
\* supplied, the parameter pano with that value and no location parameter,
\* whatever --lat, --lng and --location are; without a panorama identifier
\* it has a location parameter and no pano parameter.
C12_PanoReplacesLocation ==
    (request # None /\ args.command = T("streetview")) =>
        LET params == request.url.query IN
        IF PanoSupplied(args)
        THEN /\ "pano" \in DOMAIN params
             /\ params["pano"] = args.pano.v
             /\ "location" \notin DOMAIN params
        ELSE /\ "location" \in DOMAIN params
             /\ "pano" \notin DOMAIN params

C12_Witness ==
    /\ request # None
    /\ args.command = T("streetview")
    /\ args.pano = T("abc123")
    /\ args.lat = Lat
    /\ args.location = T("Eiffel Tower")
    /\ DOMAIN request.url.query = {"key", "size", "pano"}

\* the request's query parameter k is the value v the namespace holds for
\* the flag (the caller's value, or argparse's default when it is omitted)
Carries(k, v) ==
    "key" \in DOMAIN request.url.query
        /\ k \in DOMAIN request.url.query
        /\ request.url.query[k] = str(v)

\* C13 as stated: for every value the caller supplies, within the flag's
\* accepted range, for a flag that has a default (static-map --zoom 0-21,
\* pollen --days 1-5, a positive solar-layers --radius or place-photo
\* --max-height), the request carries the supplied value and not the default.
C13_SuppliedValueSent ==
    request # None =>
        /\ (args.command = T("static-map") /\ args.zoom.v \in 0..21) =>
               Carries("zoom", args.zoom)
        /\ (args.command = T("pollen") /\ args.days.v \in 1..5) =>
               Carries("days", args.days)
        /\ (args.command = T("solar-layers") /\ args.radius.v > 0) =>
               Carries("radiusMeters", args.radius)
        /\ (args.command = T("place-photo") /\ args.max_height.v > 0) =>
               Carries("maxHeightPx", args.max_height)

\* static-map --zoom 0 goes out as zoom=14
C13_Witness ==
    /\ request # None
    /\ args.command = T("static-map")
    /\ args.zoom = IntV(0)
    /\ request.url.query["zoom"] = <<"14">>

\* json.dumps(doc).encode() of a decoded JSON document
Serialized(doc) == IF doc.t = "dict" THEN JsonBytes(doc.v) ELSE JsonBytes(doc)

\* C14 as stated: for every valid JSON document in route-optimize's input
\* file (object, array, string, number) the request is a single POST whose
\* body is the JSON serialization of exactly that document.
C14_ForwardedVerbatim ==
    (request # None /\ args.command = T("route-optimize")
        /\ args.input_file.text.doc # None) =>
        /\ request.method = "POST"
        /\ netCalls = 1
        /\ request.data = Serialized(args.input_file.text.doc)

\* a JSON array in the input file: the body handed to urlopen is the list
\* itself, and sending it raises TypeError
C14_Witness ==
    /\ request # None
    /\ args.command = T("route-optimize")
    /\ args.input_file.text.doc = List(<<IntV(1)>>)
    /\ request.data = List(<<IntV(1)>>)
    /\ response # None
    /\ response.kind = "TypeError"
    /\ exitCode = IntV(1)

-----------------------------------------------------------------------------
(* Properties: output *)

DownloadCommands == {T("streetview"), T("static-map")}

\* the path the download goes to: --output, or the command's default
OutputPath ==
    IF args.output # None THEN args.output.v
    ELSE IF args.command = T("streetview") THEN <<"streetview.jpg">>
    ELSE <<"map.", "png">>

\* the upstream answered 2xx with a JSON content type
JsonAnswer ==
    response.kind = "2xx"
        /\ response.ct = <<"application/", "json", "; charset=UTF-8">>

\* C15: streetview and static-map write the output file exactly when the
\* dispatch returned a binary result: the file at --output (or at the
\* command's default path) then holds exactly the received bytes and the
\* one thing printed is the summary {saved: path, size_bytes: n}, n the
\* number of bytes received; when the result is JSON no file is written and
\* the JSON is printed; on any failure, and in every other command, no
\* file is written.
C15_DownloadWritesBinary ==
    /\ (args = None \/ args.command \notin DownloadCommands) =>
           written = EmptyDict
    /\ (pc = "done" /\ args # None /\ args.command \in DownloadCommands) =>
           IF response # None /\ response.kind = "2xx" /\ ~JsonAnswer
           THEN /\ DOMAIN written = {OutputPath}
                /\ written[OutputPath] = response.raw.octets
                /\ stdout = <<[fmt |-> "json", indent |-> 2,
                               ensure_ascii |-> FALSE,
                               doc |-> Dict([saved |-> Str(OutputPath),
                                             size_bytes |->
                                                 IntV(Len(response.raw.octets))])]>>
                /\ exitCode = IntV(0)
           ELSE /\ written = EmptyDict
                /\ (response # None /\ JsonAnswer /\ response.raw.text.json) =>
                       /\ stdout = <<[fmt |-> "json", indent |-> 2,
                                      ensure_ascii |-> FALSE,
                                      doc |-> response.raw.text.doc]>>
                       /\ exitCode = IntV(0)
    /\ (pc # "done") => written = EmptyDict

C15_Witness ==
    /\ pc = "done"
    /\ args # None
    /\ args.command = T("static-map")
    /\ args.output = None
    /\ response # None
    /\ response.kind = "2xx"
    /\ response.ct = <<"image/", "jpeg">>
    /\ written = (<<"map.", "png">> :> <<255, 216, 255, 224>>)

\* the invocation succeeded: its command ran to the end and printed its
\* result (what a 2xx response decoded to, or the embed URL)
Succeeded ==
    /\ args # None
    /\ keyState = "ok"
    /\ Len(stdout) = 1
    /\ stderr = <<>>
    /\ IF args.command = T("embed-url") THEN response = None
       ELSE response # None /\ response.kind = "2xx"

\* C16: the exit status is 0 exactly when the invocation succeeded; it is
\* non-zero (1) when credential resolution fails, when the upstream answers
\* with an HTTP error status and when no subcommand is given; without a
\* subcommand the program prints usage and exits with the credential
\* unresolved and no network call made.
C16_ExitStatus ==
    pc = "done" =>
        /\ exitCode # None
        /\ (exitCode = IntV(0)) <=> Succeeded
        /\ keyState = "missing" => exitCode = IntV(1)
        /\ (response # None /\ response.kind = "HTTPError") => exitCode = IntV(1)
        /\ (args = None /\ stderr = <<>>) =>
               /\ stdout = <<Help>>
               /\ exitCode = IntV(1)
               /\ keyState = "unresolved"
               /\ key = None
               /\ netCalls = 0
               /\ request = None

C16_Witness ==
    /\ pc = "done"
    /\ args = None
    /\ environ = T("env-key")
    /\ stdout = <<Help>>
    /\ exitCode = IntV(1)
    /\ keyState = "unresolved"

\* C17: embed-url makes no network call and writes no file, and what it
\* prints is determined by its parameters and the resolved key alone: in
\* every run that resolves a key the output is the same function of the
\* namespace and the key, whatever the clock reads, and no upstream
\* response exists to depend on.
C17_EmbedUrlIsPure ==
    (args # None /\ args.command = T("embed-url")) =>
        /\ netCalls = 0
        /\ request = None
        /\ response = None
        /\ written = EmptyDict
        /\ (pc = "done" /\ keyState = "ok") =>
               /\ key = Str(load_api_key(environ, files)[2])
               /\ stdout = <<[fmt |-> "json", indent |-> 2,
                              ensure_ascii |-> TRUE,
                              doc |-> Dict(cmd_embed_url(args, key.v))]>>
               /\ stderr = <<>>
               /\ exitCode = IntV(0)

C17_Witness ==
    /\ args # None
    /\ args.command = T("embed-url")
    /\ args.mode = T("view")
    /\ args.lat = Lat
    /\ pc = "done"
    /\ key = T("env-key")
    /\ Len(stdout) = 1
    /\ netCalls = 0

-----------------------------------------------------------------------------
(* Properties: coordinates, the credential's value, absent parameters *)

\* "<lat>,<lng>" as an f-string renders the two floats
Composite(a) == str(a.lat) \o <<",">> \o str(a.lng)

\* the composite parameter is lat,lng when --lat and --lng are supplied,
\* and the string flag only when --lat is not
UsesCoordinates(params, name, a, flag) ==
    /\ name \in DOMAIN params
    /\ (a.lat # None /\ a.lng # None) => params[name] = Composite(a)
    /\ a.lat = None => params[name] = str(flag)

\* C18 as stated: in streetview (without pano), static-map and embed-url
\* (view and streetview modes), whenever --lat and --lng are supplied, 0
\* included, the location/center parameter is "<lat>,<lng>", and the
\* --location/--center string is used only when --lat is not supplied.
C18_CoordinatesWin ==
    /\ (request # None /\ args.command = T("streetview") /\ ~PanoSupplied(args)) =>
           UsesCoordinates(request.url.query, "location", args, args.location)
    /\ (request # None /\ args.command = T("static-map")) =>
           UsesCoordinates(request.url.query, "center", args, args.center)
    /\ (pc = "done" /\ keyState = "ok" /\ args.command = T("embed-url")
          /\ args.mode = T("view")) =>
           UsesCoordinates(stdout[1].doc.v.embed_url.query, "center", args,
                           args.center)
    /\ (pc = "done" /\ keyState = "ok" /\ args.command = T("embed-url")
          /\ args.mode = T("streetview")) =>
           UsesCoordinates(stdout[1].doc.v.embed_url.query, "location", args,
                           args.location)

\* static-map --lat 0 --lng 0 --center Paris asks for center=Paris
C18_Witness ==
    /\ request # None
    /\ args.command = T("static-map")
    /\ args.lat = FloatV(0)
    /\ args.lng = FloatV(0)
    /\ args.center = T("Paris")
    /\ request.url.query["center"] = <<"Paris">>

\* C19 as stated: whenever credential resolution returns, the key is a
\* non-empty string (an empty environment variable and a file line giving
\* the key an empty or only-quotes value count as absence), so no request
\* is sent with an empty key parameter.
C19_KeyNonEmpty ==
    /\ keyState = "ok" => key # None /\ key.v # <<>>
    /\ request # None =>
           "key" \in DOMAIN request.url.query /\ request.url.query["key"] # <<>>

\* ./.env holds GOOGLE_MAPS_API_KEY='' and the request goes out with key=
C19_Witness ==
    /\ ~EnvHoldsKey
    /\ files[1] = File(<<EmptyValueLine>>)
    /\ keyState = "ok"
    /\ key = Str(<<>>)
    /\ request # None
    /\ request.url.query["key"] = <<>>
    /\ netCalls = 1

\* no value of the parameter set spells None (str(None), what urlencode
\* and an f-string make of an absent value)
NoNullValue(params) ==
    \A k \in DOMAIN params : \A i \in DOMAIN params[k] : params[k][i] # "None"

\* the parameter is in the set only if a flag that feeds it was supplied
OnlyIfSupplied(params, name, flags) ==
    name \in DOMAIN params => \E f \in flags : f # None

\* C20 as stated: no request carries a parameter whose value is null: a
\* parameter whose flag was not supplied is left out of the parameter set
\* (streetview with none of --lat, --location, --pano; static-map with
\* neither --lat nor --center; elevation with no coordinates; aerial-view
\* check without --address; embed-url place mode without --query).
C20_NoNullParameter ==
    /\ request # None =>
           /\ NoNullValue(request.url.query)
           /\ args.command = T("streetview") =>
                  OnlyIfSupplied(request.url.query, "location",
                                 {args.lat, args.location})
           /\ args.command = T("static-map") =>
                  OnlyIfSupplied(request.url.query, "center",
                                 {args.lat, args.center})
           /\ args.command = T("elevation") =>
                  OnlyIfSupplied(request.url.query, "locations",
                                 {args.lat, args.locations})
           /\ (args.command = T("aerial-view") /\ args.action = T("check")) =>
                  OnlyIfSupplied(request.url.query, "address", {args.address})
    /\ (pc = "done" /\ keyState = "ok" /\ args.command = T("embed-url")) =>
           /\ NoNullValue(stdout[1].doc.v.embed_url.query)
           /\ args.mode = T("place") =>
                  OnlyIfSupplied(stdout[1].doc.v.embed_url.query, "q",
                                 {args.query})

\* streetview with none of --lat, --location, --pano asks for location=None
C20_Witness ==
    /\ request # None
    /\ args.command = T("streetview")
    /\ args.lat = None
    /\ args.location = None
    /\ args.pano = None
    /\ request.url.query["location"] = <<"None">>

====
